---------------------------- MODULE Spec2Model ----------------------------
(***************************************************************************)
(* Model of agent_core/config.py: the Config base class.                   *)
(*                                                                         *)
(* Python values are written by their repr: "0" and "30" are the ints 0    *)
(* and 30, "None" is None.  A dict is the sequence of its <<key, value>>    *)
(* pairs in insertion order.  A tuple is a sequence.                       *)
(***************************************************************************)
EXTENDS Naturals, Sequences, FiniteSets, TLC

VARIABLES
    slots,      \* slots[T]: the class attribute T.__slots__ (a tuple of names)
    SCHEMA,     \* the SCHEMA class attribute the subclasses of Config declare
    ninst,      \* ninst[T]: how many times T() has been called
    conf,       \* the record at hand: its class and its slot attributes
    raised,     \* what the last call raised (NoException when it returned)
    last        \* the last call: its name and its options argument

vars == <<slots, SCHEMA, ninst, conf, raised, last>>

----------------------------------------------------------------------------
(* Bounds *)

\* T() calls in a behaviour of SpecRegistry
MaxConstructions == 4

\* T() calls in a behaviour of Spec
MaxInstances == 1

----------------------------------------------------------------------------
(* The classes: Config and a chain of subclasses A <- B <- C <- D.        *)

None == "None"

\* "0" is a value that is not None but is falsy
Values == {"0", "30"}

Names == {"a", "b", "c"}

NameOrder == <<"a", "b", "c">>

Types == {"Config", "A", "B", "C", "D"}

Bases == [Config |-> "object", A |-> "Config", B |-> "A", C |-> "B", D |-> "C"]

\* what each class body assigns to __slots__
Declared == [Config |-> <<>>, A |-> <<"a">>, B |-> <<"b">>, C |-> <<"c">>, D |-> <<>>]

RECURSIVE getmro(_)
getmro(T) == IF T = "object" THEN <<"object">> ELSE <<T>> \o getmro(Bases[T])

\* hasattr(base, '__slots__'): object has none
hasattr_slots(base) == base # "object"

Range(s) == {s[i] : i \in 1..Len(s)}

RECURSIVE Sum(_, _)
Sum(f, S) == IF S = {} THEN 0
             ELSE LET t == CHOOSE t \in S : TRUE IN f[t] + Sum(f, S \ {t})

----------------------------------------------------------------------------
(* Config.__init__                                                         *)

\* the tuple of the slots the generator yields over the classes in mro
RECURSIVE parent_slots_over(_, _)
parent_slots_over(mro, sl) ==
    IF mro = <<>> THEN <<>>
    ELSE (IF hasattr_slots(Head(mro)) THEN sl[Head(mro)] ELSE <<>>)
         \o parent_slots_over(Tail(mro), sl)

\* a generator that forgets the ancestors
parent_slots_gen_own(T, sl) == <<>>

_parent_slots_gen(T, sl) == parent_slots_over(getmro(T), sl)

\* self.__class__.__slots__ = (*_parent_slots_gen(self), *self.__class__.__slots__)
init_slots(T, sl) == [sl EXCEPT ![T] = _parent_slots_gen(T, sl) \o sl[T]]

Unset == [n \in Names |-> None]

NewRecord(T) == [cls |-> T, attr |-> Unset]

NoRecord == [cls |-> "none", attr |-> Unset]

----------------------------------------------------------------------------
(* Python dicts: a sequence of <<key, value>> pairs with distinct keys, in *)
(* insertion order.                                                        *)

has(d, k) == \E i \in 1..Len(d) : d[i][1] = k

get(d, k) == d[CHOOSE i \in 1..Len(d) : d[i][1] = k][2]

keys(d) == {d[i][1] : i \in 1..Len(d)}

\* d[k] = v
setitem(d, k, v) ==
    IF has(d, k) THEN [i \in 1..Len(d) |-> IF d[i][1] = k THEN <<k, v>> ELSE d[i]]
    ELSE Append(d, <<k, v>>)

\* dict(pairs)
RECURSIVE dict_from(_, _)
dict_from(pairs, d) ==
    IF pairs = <<>> THEN d
    ELSE dict_from(Tail(pairs), setitem(d, Head(pairs)[1], Head(pairs)[2]))

dict(pairs) == dict_from(pairs, <<>>)

\* the dict with the entries of the function f, keys in NameOrder
RECURSIVE items_over(_, _)
items_over(order, f) ==
    IF order = <<>> THEN <<>>
    ELSE (IF Head(order) \in DOMAIN f THEN << <<Head(order), f[Head(order)]>> >> ELSE <<>>)
         \o items_over(Tail(order), f)

DictOf(f) == items_over(NameOrder, f)

RECURSIVE Join(_, _)
Join(strs, sep) ==
    IF strs = <<>> THEN ""
    ELSE IF Len(strs) = 1 THEN strs[1]
    ELSE strs[1] \o sep \o Join(Tail(strs), sep)

----------------------------------------------------------------------------
(* Config.__getitem__, Config.__dict__, Config.update                      *)

\* getattr(self, index, None)
__getitem__(o, index) == o.attr[index]

\* the (slot, attr) pairs _dict_gen yields, in the order of the slots
RECURSIVE dict_gen_over(_, _)
dict_gen_over(sl, o) ==
    IF sl = <<>> THEN <<>>
    ELSE (IF o.attr[Head(sl)] = None THEN <<>> ELSE << <<Head(sl), o.attr[Head(sl)]>> >>)
         \o dict_gen_over(Tail(sl), o)

\* a generator that yields the None attributes too
dict_gen_withNone(o, sl) ==
    [i \in 1..Len(sl[o.cls]) |-> <<sl[o.cls][i], o.attr[sl[o.cls][i]]>>]

_dict_gen(o, sl) == dict_gen_over(sl[o.cls], o)

__dict__(o, sl) == dict(_dict_gen(o, sl))

\* the loop of update over the slots still to visit
RECURSIVE update_over(_, _, _)
update_over(sl, o, options) ==
    IF sl = <<>> THEN o
    ELSE LET slot == Head(sl)
             o2 == IF has(options, slot) /\ get(options, slot) # None
                   THEN [o EXCEPT !.attr[slot] = get(options, slot)]
                   ELSE o
         IN update_over(Tail(sl), o2, options)

\* an update that assigns whatever the options hold for a slot, None included
update_destructive(o, options, sl) ==
    [o EXCEPT !.attr = [n \in Names |->
        IF n \in Range(sl[o.cls]) /\ has(options, n) THEN get(options, n) ELSE o.attr[n]]]

\* an update that walks the options instead of the slots
update_anykey(o, options, sl) ==
    [o EXCEPT !.attr = [n \in Names |->
        IF has(options, n) /\ get(options, n) # None THEN get(options, n) ELSE o.attr[n]]]

update(o, options, sl) == update_over(sl[o.cls], o, options)

----------------------------------------------------------------------------
(* The schema engine: Schema(s).validate(data) for a dict schema s.        *)
(* A schema is a function from its keys to rules; a rule says whether the  *)
(* key is Optional, its default if it has one, the values its check        *)
(* accepts and the transform (Use) it applies to an accepted value.        *)

Identity == [v \in Values |-> v]

\* a transform that is not idempotent
Flip == [v \in Values |-> IF v = "0" THEN "30" ELSE "0"]

\* a transform that is idempotent and not the identity
To30 == [v \in Values |-> "30"]

Required(accepts, use) ==
    [optional |-> FALSE, hasDefault |-> FALSE, default |-> None,
     accepts |-> accepts, use |-> use]

Optional(accepts, use) ==
    [optional |-> TRUE, hasDefault |-> FALSE, default |-> None,
     accepts |-> accepts, use |-> use]

OptionalDefault(default, accepts, use) ==
    [optional |-> TRUE, hasDefault |-> TRUE, default |-> default,
     accepts |-> accepts, use |-> use]

\* the rules a schema of the model gives "a" and "b"
RulesA == {Required(Values, Identity), Required({"30"}, Identity)}

RulesB == {Optional(Values, Identity),
           Optional(Values, To30),
           OptionalDefault("30", Values, Identity),
           OptionalDefault("30", {"0"}, Identity),
           OptionalDefault("30", Values, Flip)}

EmptySchema == [k \in {} |-> Required(Values, Identity)]

\* the schemas a subclass declares: {}, {"a": ...}, {"a": ..., "b": ...}
Schemas ==
    {EmptySchema}
    \cup {[k \in {"a"} |-> ra] : ra \in RulesA}
    \cup {[k \in {"a", "b"} |-> IF k = "a" THEN Required(Values, Identity) ELSE rb] :
            rb \in RulesB \cup {Required(Values, Identity)}}

Quoted(order, S) ==
    Join([i \in 1..Len(SelectSeq(order, LAMBDA k : k \in S)) |->
            "'" \o SelectSeq(order, LAMBDA k : k \in S)[i] \o "'"], ", ")

plural_s(S) == IF Cardinality(S) > 1 THEN "s" ELSE ""

\* the validated items of data, in the order of data
validated(s, data) ==
    [i \in 1..Len(data) |-> <<data[i][1], s[data[i][1]].use[data[i][2]]>>]

\* the defaults of the Optional keys data does not cover
defaults(s, data) ==
    DictOf([k \in {k \in DOMAIN s : s[k].hasDefault /\ ~has(data, k)} |-> s[k].default])

validate(s, data) ==
    LET bad     == {i \in 1..Len(data) :
                       /\ data[i][1] \in DOMAIN s
                       /\ data[i][2] \notin s[data[i][1]].accepts}
        missing == {k \in DOMAIN s : ~s[k].optional /\ ~has(data, k)}
        wrong   == keys(data) \ DOMAIN s
    IN  IF bad # {}
        THEN LET i == CHOOSE i \in bad : \A j \in bad : i <= j
             IN [ok |-> FALSE, new |-> <<>>,
                 autos |-> <<"Key '" \o data[i][1] \o "' error:",
                             data[i][2] \o " did not validate">>]
        ELSE IF missing # {}
        THEN [ok |-> FALSE, new |-> <<>>,
              autos |-> <<"Missing key" \o plural_s(missing) \o ": "
                          \o Quoted(NameOrder, missing)>>]
        ELSE IF wrong # {}
        THEN [ok |-> FALSE, new |-> <<>>,
              autos |-> <<"Wrong key" \o plural_s(wrong) \o " "
                          \o Quoted(NameOrder, wrong)>>]
        ELSE [ok |-> TRUE, new |-> validated(s, data) \o defaults(s, data),
              autos |-> <<>>]

----------------------------------------------------------------------------
(* Config.apply, Config.from_options                                       *)

NoException == [type |-> "None", message |-> "", autos |-> <<>>]

\* raise InvalidConfigurationException(error_message) from err
InvalidConfigurationException(error_message, err) ==
    [type |-> "InvalidConfigurationException", message |-> error_message,
     autos |-> err.autos]

\* SCHEMA = {} in Config; the subclasses declare the variable SCHEMA
schema_of(T, S) == IF T = "Config" THEN EmptySchema ELSE S

\* an apply that lets the defaults land before it raises
apply_partial(o, sl, S) ==
    LET res == validate(schema_of(o.cls, S), __dict__(o, sl))
    IN  IF res.ok
        THEN [self |-> update(o, res.new, sl), raised |-> NoException]
        ELSE [self |-> update(o, defaults(schema_of(o.cls, S), __dict__(o, sl)), sl),
              raised |-> InvalidConfigurationException(
                  "Failed to validate configration: " \o Join(res.autos, ", "), res)]

\* an apply that validates and drops the validated mapping
apply_noupdate(o, sl, S) ==
    LET res == validate(schema_of(o.cls, S), __dict__(o, sl))
    IN  IF res.ok
        THEN [self |-> o, raised |-> NoException]
        ELSE [self |-> o,
              raised |-> InvalidConfigurationException(
                  "Failed to validate configration: " \o Join(res.autos, ", "), res)]

apply(o, sl, S) ==
    LET res == validate(schema_of(o.cls, S), __dict__(o, sl))
    IN  IF res.ok
        THEN [self |-> update(o, res.new, sl), raised |-> NoException]
        ELSE [self |-> o,
              raised |-> InvalidConfigurationException(
                  "Failed to validate configration: " \o Join(res.autos, ", "), res)]

\* a factory that applies before it updates
from_options_apply_first(T, options, sl, S) ==
    LET sl2 == init_slots(T, sl)
        r   == apply(NewRecord(T), sl2, S)
    IN  [slots |-> sl2, self |-> update(r.self, options, sl2), raised |-> r.raised]

\* conf = cls(); conf.update(options); conf.apply()
from_options(T, options, sl, S) ==
    LET sl2 == init_slots(T, sl)
        r   == apply(update(NewRecord(T), options, sl2), sl2, S)
    IN  [slots |-> sl2, self |-> r.self, raised |-> r.raised]

----------------------------------------------------------------------------
(* The state machine                                                       *)

\* the keys of the options a caller passes; Config declares neither, A
\* declares only "a"
OptionKeys == {"a", "b"}

Mappings ==
    {DictOf(f) : f \in UNION {[K -> Values \cup {None}] : K \in SUBSET OptionKeys}}

\* streak: the successful apply calls in a row that end with this call,
\* counted up to 2
Call(op, options, streak) == [op |-> op, options |-> options, streak |-> streak]

Min(x, y) == IF x < y THEN x ELSE y

Init ==
    /\ slots = Declared
    /\ SCHEMA \in Schemas
    /\ ninst = [T \in Types |-> 0]
    /\ conf = NoRecord
    /\ raised = NoException
    /\ last = Call("none", <<>>, 0)

\* conf = T()
Construct(T, limit) ==
    /\ Sum(ninst, Types) < limit
    /\ slots' = init_slots(T, slots)
    /\ ninst' = [ninst EXCEPT ![T] = @ + 1]
    /\ conf' = NewRecord(T)
    /\ raised' = NoException
    /\ last' = Call("__init__", <<>>, 0)
    /\ UNCHANGED SCHEMA

\* conf.update(options)
Update(options) ==
    /\ conf.cls \in Types
    /\ conf' = update(conf, options, slots)
    /\ raised' = NoException
    /\ last' = Call("update", options, 0)
    /\ UNCHANGED <<slots, SCHEMA, ninst>>

\* conf.apply()
Apply ==
    /\ conf.cls \in Types
    /\ LET r == apply(conf, slots, SCHEMA)
       IN  /\ conf' = r.self
           /\ raised' = r.raised
           /\ last' = Call("apply", <<>>,
                           IF r.raised = NoException THEN Min(last.streak + 1, 2) ELSE 0)
    /\ UNCHANGED <<slots, SCHEMA, ninst>>

\* conf = T.from_options(options); when apply raises, conf is the record as
\* apply left it
FromOptions(T, options, limit) ==
    /\ Sum(ninst, Types) < limit
    /\ LET r == from_options(T, options, slots, SCHEMA)
       IN  /\ slots' = r.slots
           /\ conf' = r.self
           /\ raised' = r.raised
           /\ last' = Call("from_options", options,
                           IF r.raised = NoException THEN 1 ELSE 0)
    /\ ninst' = [ninst EXCEPT ![T] = @ + 1]
    /\ UNCHANGED SCHEMA

Next ==
    \/ \E T \in Types : Construct(T, MaxInstances)
    \/ \E options \in Mappings : Update(options)
    \/ Apply
    \/ \E T \in Types, options \in Mappings : FromOptions(T, options, MaxInstances)

Spec == Init /\ [][Next]_vars

\* construction only: the registry of the classes
InitRegistry ==
    /\ slots = Declared
    /\ SCHEMA = EmptySchema
    /\ ninst = [T \in Types |-> 0]
    /\ conf = NoRecord
    /\ raised = NoException
    /\ last = Call("none", <<>>, 0)

NextRegistry == \E T \in Types : Construct(T, MaxConstructions)

SpecRegistry == InitRegistry /\ [][NextRegistry]_vars

----------------------------------------------------------------------------
(* Properties                                                              *)

\* the names T and its ancestors declare
ChainNames(T) ==
    UNION {Range(Declared[U]) : U \in Range(getmro(T)) \ {"object"}}

\* the schema of the record at hand
SchemaOfConf == schema_of(conf.cls, SCHEMA)

\* the value the options hold for f, None when they hold none
Supplied(options, f) == IF has(options, f) THEN get(options, f) ELSE None

\* C1: once a class T has been instantiated, instantiating any class again
\* leaves T.__slots__ the same tuple.
C1_RegistryComputedOnce ==
    [][\A T \in Types : ninst[T] >= 1 => slots'[T] = slots[T]]_vars

\* C2: for the chain A <- B <- C declaring a, b, c, the registry of C, once
\* C has been instantiated, is the tuple (a, b, c).
C2_ChainOrder ==
    ninst["C"] >= 1 => slots["C"] = <<"a", "b", "c">>

\* C10: the set of names in the registry of every instantiated class is the
\* union of the names the class and its ancestors declare.
C10_RegistryUnion ==
    \A T \in Types : ninst[T] >= 1 => Range(slots[T]) = ChainNames(T)

\* D declares nothing and was instantiated after an ancestor was
C10_Witness ==
    /\ ninst["D"] >= 1
    /\ ninst["C"] + ninst["B"] >= 1
    /\ Range(slots["D"]) = {"a", "b", "c"}

\* C3: update(m) leaves every declared field f holding m[f] when m has a
\* value other than None for f, and the value it held before otherwise; no
\* update (apply's own included) unsets a field that was set.
C3_UpdateNonDestructive ==
    [][/\ last'.op = "update" =>
            \A f \in ChainNames(conf.cls) :
                conf'.attr[f] = IF Supplied(last'.options, f) # None
                                THEN Supplied(last'.options, f)
                                ELSE conf.attr[f]
       /\ last'.op \in {"update", "apply"} =>
            \A f \in ChainNames(conf.cls) :
                conf.attr[f] # None => conf'.attr[f] # None]_vars

\* update({"a": None}) was called on a record whose a was set, and a is
\* still set
C3_Witness ==
    /\ last.op = "update"
    /\ last.options = << <<"a", None>> >>
    /\ conf.cls = "B"
    /\ conf.attr["a"] = "30"

\* C4: update with options that hold a key outside the registry of the
\* record does not raise, creates no attribute for a name the class does
\* not declare, and changes no declared field but those the options give a
\* value other than None.
C4_UnknownKeyTolerance ==
    [][(/\ last'.op = "update"
        /\ ~(keys(last'.options) \subseteq Range(slots[conf.cls])))
       => /\ raised' = NoException
          /\ \A k \in Names \ ChainNames(conf.cls) : conf'.attr[k] = None
          /\ \A f \in ChainNames(conf.cls) :
                Supplied(last'.options, f) = None => conf'.attr[f] = conf.attr[f]]_vars

\* update({"b": "30"}) was called on an A, which declares no b
C4_Witness ==
    /\ last.op = "update"
    /\ conf.cls = "A"
    /\ last.options = << <<"b", "30">> >>
    /\ conf.attr["a"] = "0"
    /\ conf.attr["b"] = None

\* C5: the keys of the dict projection are the declared fields that hold a
\* value other than None, each mapped to that value, each once.
C5_ProjectionOmitsUnset ==
    conf.cls \in Types =>
        LET d == __dict__(conf, slots)
        IN  /\ keys(d) = {f \in ChainNames(conf.cls) : conf.attr[f] # None}
            /\ Len(d) = Cardinality(keys(d))
            /\ \A i \in 1..Len(d) : d[i][2] = conf.attr[d[i][1]] /\ d[i][2] # None

\* a record with the fields a and b where only a is set
C5_Witness ==
    /\ conf.cls = "B"
    /\ conf.attr["a"] = "0"
    /\ conf.attr["b"] = None
    /\ __dict__(conf, slots) = << <<"a", "0">> >>

\* C6: when the engine rejects the projection, apply raises
\* InvalidConfigurationException and leaves every attribute as it was; a
\* from_options that raises leaves the record as update(options) made it.
C6_FailedApplyAppliesNothing ==
    [][/\ (/\ last'.op = "apply"
           /\ ~validate(SchemaOfConf, __dict__(conf, slots)).ok)
          => /\ raised'.type = "InvalidConfigurationException"
             /\ conf' = conf
       /\ (last'.op = "apply" /\ raised' # NoException) => conf' = conf
       /\ (last'.op = "from_options" /\ raised' # NoException)
          => /\ raised'.type = "InvalidConfigurationException"
             /\ \A f \in Names :
                  conf'.attr[f] = IF f \in ChainNames(conf'.cls)
                                  THEN Supplied(last'.options, f)
                                  ELSE None]_vars

\* apply raised on a record whose schema declares a default for b, and b
\* is still unset
C6_Witness ==
    /\ last.op = "apply"
    /\ raised.type = "InvalidConfigurationException"
    /\ conf.cls = "B"
    /\ "b" \in DOMAIN SCHEMA
    /\ SCHEMA["b"].hasDefault
    /\ conf.attr["b"] = None

\* the value a caller supplied for f to the call that has just returned:
\* the attribute before apply, the option given to from_options
CallerSupplied(f) ==
    IF last'.op = "apply" THEN conf.attr[f] ELSE Supplied(last'.options, f)

ApplySucceeded ==
    last'.op \in {"apply", "from_options"} /\ raised' = NoException

\* C7 as stated: after apply succeeds every required field holds a value
\* other than None and every optional field holds the caller-supplied value
\* or the default of the schema; an omitted field with a default holds it.
C7_AsStated ==
    [][ApplySucceeded =>
        LET S == schema_of(conf'.cls, SCHEMA)
        IN  \A f \in ChainNames(conf'.cls) \cap DOMAIN S :
              /\ ~S[f].optional => conf'.attr[f] # None
              /\ S[f].optional =>
                    conf'.attr[f] \in {CallerSupplied(f)}
                        \cup (IF S[f].hasDefault THEN {S[f].default} ELSE {})
              /\ (S[f].hasDefault /\ CallerSupplied(f) = None)
                    => conf'.attr[f] = S[f].default]_vars

\* C7 as amended: ... every optional field holds the caller-supplied value,
\* the engine's normalisation of it (the transform of the schema applied)
\* or the default; an omitted field with a default holds the default.
C7_RequiredSetOptionalNormalised ==
    [][ApplySucceeded =>
        LET S == schema_of(conf'.cls, SCHEMA)
        IN  \A f \in ChainNames(conf'.cls) \cap DOMAIN S :
              /\ ~S[f].optional => conf'.attr[f] # None
              /\ S[f].optional =>
                    conf'.attr[f] \in
                        {CallerSupplied(f)}
                        \cup (IF CallerSupplied(f) # None
                              THEN {S[f].use[CallerSupplied(f)]} ELSE {})
                        \cup (IF S[f].hasDefault THEN {S[f].default} ELSE {})
              /\ (S[f].hasDefault /\ CallerSupplied(f) = None)
                    => conf'.attr[f] = S[f].default]_vars

\* from_options without b returned a record whose b is the default 30
C7_Witness ==
    /\ last.op = "from_options"
    /\ raised = NoException
    /\ conf.cls = "B"
    /\ ~has(last.options, "b")
    /\ "b" \in DOMAIN SCHEMA
    /\ SCHEMA["b"].hasDefault
    /\ conf.attr["b"] = "30"
    /\ conf.attr["a"] # None

\* C8 as stated: an apply that follows a successful apply does not raise
\* and leaves every attribute as it was, whatever the schema.
C8_AsStated ==
    [][(last.streak >= 1 /\ last'.op = "apply")
       => raised' = NoException /\ conf' = conf]_vars

\* a schema whose output is a fixed point of it: every default passes the
\* check of its key and is kept by its transform, and every transformed
\* value passes the check and is kept by the transform
Stable(S) ==
    \A k \in DOMAIN S :
        /\ S[k].hasDefault =>
              S[k].default \in S[k].accepts /\ S[k].use[S[k].default] = S[k].default
        /\ \A v \in S[k].accepts :
              S[k].use[v] \in S[k].accepts /\ S[k].use[S[k].use[v]] = S[k].use[v]

\* C8 as amended: for a schema whose defaults pass their own check and
\* whose transforms are idempotent, an apply that follows a successful apply
\* does not raise and leaves every attribute as it was.
C8_ApplyIdempotentOnStableSchema ==
    [][(last.streak >= 1 /\ last'.op = "apply" /\ Stable(SchemaOfConf))
       => raised' = NoException /\ conf' = conf]_vars

\* a second apply in a row has succeeded under a schema with a default and
\* an idempotent transform
C8_Witness ==
    /\ last.op = "apply"
    /\ last.streak = 2
    /\ conf.cls = "B"
    /\ Stable(SCHEMA)
    /\ "b" \in DOMAIN SCHEMA
    /\ SCHEMA["b"].hasDefault
    /\ conf.attr["b"] = "30"

\* C9: the message of the exception is "Failed to validate configuration: "
\* followed by the reasons of the engine joined by ", ".
C9_MessageJoinsReasons ==
    raised.type = "InvalidConfigurationException" =>
        /\ raised.autos # <<>>
        /\ raised.message =
              "Failed to validate configuration: " \o Join(raised.autos, ", ")

=============================================================================
